---- MODULE Spec2Model ----
(***************************************************************************)
(* Module lifecycle manager of the modular bot: ModuleLoader               *)
(* (core/module_loader.py), the Registry and Error Sink tables             *)
(* (core/database.py) and the handlers of the system module "manager"      *)
(* (modules/system/manager.py).                                            *)
(*                                                                         *)
(* Every handler is an asyncio task.  A task gives up control only at an   *)
(* await that really suspends (network, database, the module's own         *)
(* register coroutine); the code between two such awaits is one atomic     *)
(* step of the model.  unload_module contains no await, and                *)
(* _install_dependencies calls the blocking subprocess.run, so both run    *)
(* inside the step that calls them.                                        *)
(***************************************************************************)
EXTENDS Integers, Sequences, FiniteSets, TLC

\* Number of requests (handler or loader calls) issued after startup.
MaxOps == 2

\* Number of failures of the environment (database error, failed download,
\* failed pip run) in one run.
MaxFaults == 1

Names == {"a", "b"}
Tasks == {1, 2}
Actors == {"owner", "adm", "guest"}

\* config.admin_id and the rows of the Admin table.
ADMIN_ID == "owner"
AdminTable == {"owner", "adm"}

\* Path("modules/system") / Path("modules/user"); a path is <<directory, stem>>.
system_modules_dir == "system"
user_modules_dir == "user"

(***************************************************************************)
(* What an artifact's code does when load_module runs it.                  *)
(*   exec         : outcome of spec.loader.exec_module(module)            *)
(*   hasRegister  : hasattr(module, 'register')                            *)
(*   DEPENDENCIES : the module attribute read by load_module               *)
(*   register     : outcome of await module.register(...)                  *)
(*   dependencies : ModuleInfo.dependencies of the returned descriptor     *)
(* "raise" is an Exception, "exit" a BaseException that is no Exception    *)
(* (SystemExit, KeyboardInterrupt), "bad" a value that is no ModuleInfo.   *)
(***************************************************************************)
Good == [exec |-> "ok", hasRegister |-> TRUE, DEPENDENCIES |-> <<>>,
         register |-> "info", dependencies |-> <<>>]

Artifact ==
    [A |-> Good,
     D |-> [Good EXCEPT !.DEPENDENCIES = <<"p1", "p2">>, !.dependencies = <<"p1", "p2">>],
     E |-> [Good EXCEPT !.dependencies = <<"p1">>],
     N |-> [Good EXCEPT !.hasRegister = FALSE, !.DEPENDENCIES = <<"p1">>],
     M |-> [Good EXCEPT !.DEPENDENCIES = <<"p1">>, !.register = "bad"],
     X |-> [Good EXCEPT !.exec = "raise"],
     R |-> [Good EXCEPT !.register = "raise"],
     Q |-> [Good EXCEPT !.exec = "exit"]]

\* Artifacts an actor uploads or a URL serves, and those found on disk at startup.
\* ("-": no file of that name; modules/system always holds manager.py).
Uploads == {"A", "D", "N", "M", "R", "Q"}
SystemFiles == [a |-> {"A"}]
UserFiles == [b |-> {"A", "X", "-"}]

VARIABLES
    hostAlive,       \* the host process is running
    boot,            \* load_all_modules: directory being scanned, names still to
                     \* load, and the paths load_module was called on, in order
    loaded_modules,  \* ModuleLoader.loaded_modules: name -> descriptor (the Catalog)
    registry,        \* table "modules": name -> ModuleRecord row
    files,           \* artifact storage: path -> artifact
    error_log,       \* table "error_logs", in insertion order
    installed,       \* packages pip has installed
    now,             \* clock read by auto_now / auto_now_add
    proposals,       \* conflict messages whose inline keyboard is still shown
    tasks,           \* the running handlers / loader calls
    faults,          \* failures of the environment so far
    nOps             \* requests issued so far

vars == <<hostAlive, boot, loaded_modules, registry, files, error_log,
          installed, now, proposals, tasks, faults, nOps>>

NoProp == [src |-> "-", name |-> "-", art |-> "-"]

IdleTask ==
    [op |-> "none", pc |-> "idle", name |-> "-", art |-> "-", path |-> <<"-", "-">>,
     is_system |-> FALSE, overwrite |-> FALSE, byAdmin |-> FALSE, prop |-> NoProp,
     calls |-> <<>>, mut |-> FALSE, logged |-> FALSE, fetched |-> FALSE,
     ret |-> "none", kind |-> "none", preUpd |-> 0, tried |-> <<>>]

\* The environment fails `n` more times.
Fail(n) == faults + n <= MaxFaults /\ faults' = faults + n
Cost(ok) == IF ok THEN 0 ELSE 1

Remove(f, k) == [x \in DOMAIN f \ {k} |-> f[x]]
Put(f, k, v) == (k :> v) @@ f

----------------------------------------------------------------------------
(* core/database.py *)

\* Admin.is_admin behind manager.is_admin: a database error counts as "no".
is_admin(user_id, db_ok) == user_id = ADMIN_ID \/ (db_ok /\ user_id \in AdminTable)

\* add_module written as update_or_create: is_system follows the argument.
add_module_OverwritesOrigin(reg, name, file_path, is_system, ts) ==
    IF name \in DOMAIN reg
    THEN [reg EXCEPT ![name] = [@ EXCEPT !.file_path = file_path,
                                         !.is_system = is_system,
                                         !.is_active = TRUE,
                                         !.updated_at = ts]]
    ELSE (name :> [file_path |-> file_path, is_system |-> is_system,
                   is_active |-> TRUE, added_at |-> ts, updated_at |-> ts]) @@ reg

\* add_module without the save() of an existing row.
add_module_NoSave(reg, name, file_path, is_system, ts) ==
    IF name \in DOMAIN reg
    THEN reg
    ELSE (name :> [file_path |-> file_path, is_system |-> is_system,
                   is_active |-> TRUE, added_at |-> ts, updated_at |-> ts]) @@ reg

\* add_module written as delete and create: an existing row loses its added_at.
add_module_ResetsCreated(reg, name, file_path, is_system, ts) ==
    IF name \in DOMAIN reg
    THEN [reg EXCEPT ![name] = [@ EXCEPT !.file_path = file_path,
                                         !.is_active = TRUE,
                                         !.added_at = ts,
                                         !.updated_at = ts]]
    ELSE (name :> [file_path |-> file_path, is_system |-> is_system,
                   is_active |-> TRUE, added_at |-> ts, updated_at |-> ts]) @@ reg

\* ModuleRecord.add_module: get_or_create, then file_path / is_active / save().
add_module(reg, name, file_path, is_system, ts) ==
    IF name \in DOMAIN reg
    THEN [reg EXCEPT ![name] = [@ EXCEPT !.file_path = file_path,
                                         !.is_active = TRUE,
                                         !.updated_at = ts]]
    ELSE Put(reg, name, [file_path |-> file_path, is_system |-> is_system,
                         is_active |-> TRUE, added_at |-> ts, updated_at |-> ts])

\* ModuleRecord.get_module: the row, or none (also on a database error).
has_module(reg, name, db_ok) == db_ok /\ name \in DOMAIN reg

\* delete_module as a soft delete: the row is kept and marked inactive.
delete_module_Deactivates(reg, name, db_ok) ==
    IF has_module(reg, name, db_ok) /\ ~reg[name].is_system
    THEN [reg EXCEPT ![name].is_active = FALSE]
    ELSE reg

\* ModuleRecord.delete_module: only a row that is not is_system is deleted.
delete_module(reg, name, db_ok) ==
    IF has_module(reg, name, db_ok) /\ ~reg[name].is_system
    THEN Remove(reg, name)
    ELSE reg

\* ModuleRecord.get_all_modules: the names of the rows with is_active, of one
\* origin class when is_system is "True" or "False" ("None": of both); an
\* empty list on a database error.
get_all_modules(reg, is_system, db_ok) ==
    IF db_ok
    THEN {n \in DOMAIN reg :
            /\ reg[n].is_active
            /\ is_system # "None" => reg[n].is_system = (is_system = "True")}
    ELSE {}

\* ErrorLog.log_error: appends a row; its own database error is swallowed.
log_error(log, error_type, module_name, db_ok) ==
    IF db_ok
    THEN Append(log, [module_name |-> module_name, error_type |-> error_type])
    ELSE log

----------------------------------------------------------------------------
(* core/module_loader.py *)

\* unload_module that forgets the del.
unload_module_Noop(cat, name) == cat

\* unload_module that empties the dictionary.
unload_module_Clears(cat, name) == <<>>

\* ModuleLoader.unload_module on the Catalog (sys.modules, which it also
\* clears, is only ever written by the loader and is left out).
unload_module(cat, name) == Remove(cat, name)

\* The descriptor stored by load_module: the entrypoint's ModuleInfo with
\* is_system overwritten by the argument.
ModuleInfo(art, is_system) ==
    [art |-> art, is_system |-> is_system, dependencies |-> Artifact[art].dependencies]

\* load_module without the isinstance check.
CatalogAfterRegister_NoTypeCheck(cat, name, art, is_system) ==
    IF Artifact[art].register \in {"info", "bad"}
    THEN (name :> ModuleInfo(art, is_system)) @@ cat
    ELSE cat

\* load_module storing the entry before it awaits register.
CatalogAfterRegister_BeforeAwait(cat, name, art, is_system) ==
    (name :> ModuleInfo(art, is_system)) @@ cat

\* The isinstance(module_info, ModuleInfo) branch: the Catalog after register returned.
CatalogAfterRegister(cat, name, art, is_system) ==
    IF Artifact[art].register = "info"
    THEN Put(cat, name, ModuleInfo(art, is_system))
    ELSE cat

(* _install_dependencies: the for loop from index i on. pip is run on one
   specifier after the other; `bad` is the index of the one pip fails on
   (Len + 1: none). r collects the packages installed (inst), the specifiers
   pip was run on (tried) and the value returned (ok). *)
RECURSIVE pip_loop(_, _, _, _)
pip_loop(deps, i, bad, r) ==
    IF i > Len(deps) THEN [r EXCEPT !.ok = TRUE]
    ELSE IF i = bad THEN [r EXCEPT !.tried = Append(@, deps[i]), !.ok = FALSE]
    ELSE pip_loop(deps, i + 1, bad,
            [r EXCEPT !.tried = Append(@, deps[i]), !.inst = @ \cup {deps[i]}])

install_dependencies_KeepsGoing(deps, inst, bad) ==
    [ok |-> bad > Len(deps), tried |-> deps,
     inst |-> inst \cup {deps[i] : i \in (1..Len(deps)) \ {bad}}]

install_dependencies(deps, inst, bad) ==
    pip_loop(deps, 1, bad, [ok |-> FALSE, inst |-> inst, tried |-> <<>>])

(* load_module from its first line to the call of _install_dependencies or,
   without a DEPENDENCIES attribute, to the await of register: the outcome
   for the artifact at `path`. *)
ExecOutcome(path) ==
    IF path \notin DOMAIN files
    THEN [res |-> "fail", kind |-> "ArtifactNotFound", raised |-> FALSE]
    ELSE LET art == Artifact[files[path]] IN
         CASE art.exec = "exit" ->
                [res |-> "crash", kind |-> "none", raised |-> FALSE]
           [] art.exec = "raise" ->
                [res |-> "fail", kind |-> "ExecutionFault", raised |-> TRUE]
           [] ~art.hasRegister ->
                [res |-> "fail", kind |-> "InvalidModuleSchema", raised |-> FALSE]
           [] art.DEPENDENCIES # <<>> ->
                [res |-> "deps", kind |-> "none", raised |-> FALSE]
           [] OTHER ->
                [res |-> "cont", kind |-> "none", raised |-> FALSE]

DepsAt(path) == IF path \in DOMAIN files THEN Artifact[files[path]].DEPENDENCIES ELSE <<>>

\* A call that has ended returns at once: nothing else runs while a task
\* stands at "done", the point where its result is observed. subprocess.run
\* does not yield to the event loop: nothing else runs while a task stands
\* at "provision", inside _install_dependencies.
Active == hostAlive /\ \A t \in Tasks : tasks[t].pc \notin {"done", "provision"}

\* History kept with a task: did this load_module change the Catalog or the
\* Registry, did it append to the Error Sink.
Mutated(catBase) == loaded_modules' # catBase \/ registry' # registry
Logged == error_log' # error_log

\* The record of a finished call: what it was, what it returned, its history.
Finish(tk, ret, kind) ==
    [IdleTask EXCEPT !.op = tk.op, !.pc = "done", !.name = tk.name, !.art = tk.art,
                     !.path = tk.path, !.is_system = tk.is_system,
                     !.byAdmin = tk.byAdmin, !.prop = tk.prop, !.calls = tk.calls,
                     !.mut = tk.mut,
                     !.logged = tk.logged, !.fetched = tk.fetched, !.preUpd = tk.preUpd,
                     !.tried = tk.tried,
                     !.ret = ret, !.kind = kind]

\* callback.message.delete() at the end of an overwrite callback.
PropsAfter(tk) == IF tk.op = "confirm" THEN proposals \ {tk.prop} ELSE proposals

(* The step that enters load_module: task record tk (path, name, is_system
   set by the caller) and the Catalog as the caller left it. *)
LoadEntry(t, tk, cat) ==
    \E log_ok \in BOOLEAN :
      LET o == ExecOutcome(tk.path)
          tl == [tk EXCEPT !.calls = Append(@, "load"), !.tried = <<>>,
                           !.art = IF tk.path \in DOMAIN files THEN files[tk.path] ELSE "-"]
      IN /\ loaded_modules' = cat
         /\ error_log' = IF o.raised
                         THEN log_error(error_log, "RuntimeError", tk.name, log_ok)
                         ELSE error_log
         /\ hostAlive' = (o.res # "crash")
         /\ proposals' = IF o.res = "fail" THEN PropsAfter(tk) ELSE proposals
         /\ (log_ok \/ o.raised)
         /\ Fail(Cost(log_ok))
         /\ UNCHANGED <<boot, registry, files, now, installed>>
         /\ LET tm == [tl EXCEPT !.mut = Mutated(cat), !.logged = Logged]
            IN tasks' = [tasks EXCEPT ![t] =
                            CASE o.res = "fail" -> Finish(tm, "fail", o.kind)
                              [] o.res = "crash" -> [tm EXCEPT !.pc = "crashed"]
                              [] o.res = "deps" -> [tm EXCEPT !.pc = "provision"]
                              [] OTHER -> [tm EXCEPT !.pc = "register"]]

(* load_module lines 101-106: the call of _install_dependencies on the
   module's DEPENDENCIES, which runs to its end without yielding; a False
   result ends the Load. *)
Provision(t) ==
    LET tk == tasks[t]
        deps == DepsAt(tk.path)
    IN /\ hostAlive /\ tk.pc = "provision"
       /\ \E bad \in 1..(Len(deps) + 1) :
            LET r == install_dependencies(deps, installed, bad)
                tp == [tk EXCEPT !.tried = r.tried]
            IN /\ installed' = r.inst
               /\ Fail(Cost(r.ok))
               /\ proposals' = IF r.ok THEN proposals ELSE PropsAfter(tk)
               /\ tasks' = [tasks EXCEPT ![t] =
                               IF r.ok THEN [tp EXCEPT !.pc = "register"]
                               ELSE Finish(tp, "fail", "ProvisionError")]
       /\ UNCHANGED <<hostAlive, boot, loaded_modules, registry, files,
                      error_log, now, nOps>>

\* _load_module_from_file / _download_and_load_module after the download:
\* unload_module when overwriting, then load_module.
Exec(t) ==
    LET tk == tasks[t] IN
    /\ Active /\ tk.pc = "exec"
    /\ nOps' = nOps
    /\ IF tk.overwrite
       THEN LoadEntry(t, [tk EXCEPT !.calls = Append(@, "unload")],
                      unload_module(loaded_modules, tk.name))
       ELSE LoadEntry(t, tk, loaded_modules)

\* load_module resumed when register returns (or raises).
Register(t) ==
    LET tk == tasks[t]
        r == Artifact[tk.art].register
    IN /\ Active /\ tk.pc = "register"
       /\ \E log_ok \in BOOLEAN :
            /\ loaded_modules' = CatalogAfterRegister(loaded_modules, tk.name, tk.art, tk.is_system)
            /\ error_log' = IF r = "raise"
                            THEN log_error(error_log, "RuntimeError", tk.name, log_ok)
                            ELSE error_log
            /\ hostAlive' = (r # "exit")
            /\ proposals' = IF r \in {"bad", "raise"} THEN PropsAfter(tk) ELSE proposals
            /\ (log_ok \/ r = "raise")
            /\ Fail(Cost(log_ok))
            /\ UNCHANGED <<boot, registry, files, installed, now, nOps>>
            /\ LET tm == [tk EXCEPT !.mut = @ \/ Mutated(loaded_modules),
                                    !.logged = @ \/ Logged]
               IN tasks' = [tasks EXCEPT ![t] =
                               CASE r = "info" -> [tm EXCEPT !.pc = "upsert"]
                                 [] r = "bad" -> Finish(tm, "fail", "InvalidModuleSchema")
                                 [] r = "raise" -> Finish(tm, "fail", "ExecutionFault")
                                 [] OTHER -> [tm EXCEPT !.pc = "crashed"]]

\* load_module resumed when ModuleRecord.add_module returns (or raises).
Upsert(t) ==
    LET tk == tasks[t] IN
    /\ Active /\ tk.pc = "upsert"
    /\ \E add_ok \in BOOLEAN, log_ok \in BOOLEAN :
         /\ registry' = IF add_ok
                        THEN add_module(registry, tk.name, tk.path, tk.is_system, now + 1)
                        ELSE registry
         /\ now' = IF add_ok THEN now + 1 ELSE now
         /\ error_log' = IF add_ok THEN error_log
                         ELSE log_error(error_log, "OperationalError", tk.name, log_ok)
         /\ proposals' = PropsAfter(tk)
         /\ (log_ok \/ ~add_ok)
         /\ Fail(Cost(add_ok) + Cost(log_ok))
         /\ UNCHANGED <<hostAlive, boot, loaded_modules, files, installed, nOps>>
         /\ LET tm == [tk EXCEPT !.mut = @ \/ Mutated(loaded_modules),
                                 !.logged = @ \/ Logged]
            IN tasks' = [tasks EXCEPT ![t] =
                            IF add_ok THEN Finish(tm, "ok", "none")
                            ELSE Finish(tm, "fail", "RegistryError")]

----------------------------------------------------------------------------
(* ModuleLoader.load_all_modules / _load_modules_from_directory *)

NamesIn(dir) == {n \in Names : <<dir, n>> \in DOMAIN files}

\* The next file of directory.glob("*.py") (in any order), system directory
\* first; startup is over when the user directory is exhausted.
BootNext ==
    /\ Active /\ boot.dir # "done" /\ tasks[1].pc = "idle"
    /\ IF boot.todo # {}
       THEN \E n \in boot.todo :
              /\ boot' = [boot EXCEPT !.todo = @ \ {n},
                                       !.attempted = Append(@, <<boot.dir, n>>)]
              /\ tasks' = [tasks EXCEPT ![1] =
                    [IdleTask EXCEPT !.op = "boot", !.pc = "exec", !.name = n,
                                     !.path = <<boot.dir, n>>,
                                     !.is_system = (boot.dir = system_modules_dir)]]
       ELSE /\ boot' = IF boot.dir = system_modules_dir
                       THEN [boot EXCEPT !.dir = user_modules_dir,
                                         !.todo = NamesIn(user_modules_dir)]
                       ELSE [boot EXCEPT !.dir = "done"]
            /\ tasks' = tasks
    /\ UNCHANGED <<hostAlive, loaded_modules, registry, files, error_log,
                   installed, now, proposals, faults, nOps>>

\* dp.start_polling: updates are handled, each in a task of its own, once
\* on_startup has returned.  A request takes the first free task.
Running == Active /\ boot.dir = "done"
Free(t) == tasks[t].pc = "idle" /\ \A s \in Tasks : s < t => tasks[s].pc # "idle"
CanStart(t) == Running /\ Free(t) /\ nOps < MaxOps

----------------------------------------------------------------------------
(* modules/system/manager.py *)

\* A handler without the conflict check.
HasConflict_Never(name) == FALSE

\* The conflict check of load_module_handler / download_load_module_handler.
HasConflict(name) == name \in DOMAIN loaded_modules

\* The conflict message with its inline keyboard; src is the handler that sent
\* it (callback data overwrite_lm_<name> or overwrite_dlm_<url>).
Proposal(src, name, art) == [src |-> src, name |-> name, art |-> art]

\* /lm (in reply to a document <name>.py) or /dlm <url ending in <name>.py>:
\* the handler resumed when admin_required returns, the conflict check
\* following with no await in between.  Requests the handlers answer without
\* going on (no document, no .py, no url) are left out.  From here on the two
\* handlers differ only in the conflict message they send.
LoadRequest(t) ==
    /\ CanStart(t)
    /\ \E src \in {"lm", "dlm"}, actor \in Actors, n \in Names, art \in Uploads,
          db_ok \in BOOLEAN :
         LET tk == [IdleTask EXCEPT !.op = "load", !.name = n, !.art = art,
                                    !.byAdmin = is_admin(actor, db_ok)]
         IN /\ proposals' = IF tk.byAdmin /\ HasConflict(n)
                            THEN proposals \cup {Proposal(src, n, art)}
                            ELSE proposals
            /\ tasks' = [tasks EXCEPT ![t] =
                 CASE ~tk.byAdmin -> Finish([tk EXCEPT !.art = "-"], "denied", "none")
                   [] HasConflict(n) -> Finish(tk, "conflict", "ConflictPending")
                   [] OTHER -> [tk EXCEPT !.pc = "download"]]
    /\ nOps' = nOps + 1
    /\ UNCHANGED <<hostAlive, boot, loaded_modules, registry, files,
                   error_log, installed, now, faults>>

\* bot.download_file / session.get + write into modules/user/<name>.py.
Fetch(t, tk, ok) ==
    /\ files' = IF ok THEN Put(files, <<user_modules_dir, tk.name>>, tk.art) ELSE files
    /\ proposals' = IF ok THEN proposals ELSE PropsAfter(tk)
    /\ tasks' = [tasks EXCEPT ![t] =
                    IF ok THEN [tk EXCEPT !.pc = "exec", !.fetched = TRUE,
                                          !.path = <<user_modules_dir, tk.name>>,
                                          !.is_system = FALSE]
                    ELSE Finish(tk, "fail", "DownloadError")]
    /\ Fail(Cost(ok))
    /\ UNCHANGED <<hostAlive, boot, loaded_modules, registry, error_log, installed, now>>

\* _load_module_from_file / _download_and_load_module resumed when the
\* download has ended.
Download(t) ==
    /\ Active /\ tasks[t].pc = "download"
    /\ \E ok \in BOOLEAN : Fetch(t, tasks[t], ok)
    /\ nOps' = nOps

\* The "yes" button of a conflict message, pressed by anyone who sees it:
\* overwrite_module_callback / overwrite_dlm_callback up to the end of the
\* download.  overwrite_module_callback first reads
\* callback.message.reply_to_message.document; without a replied-to message
\* that raises and the callback ends, the conflict message left in place.
Confirm(t) ==
    /\ CanStart(t)
    /\ \E p \in proposals, actor \in Actors, has_reply \in BOOLEAN, db_ok \in BOOLEAN,
          ok \in BOOLEAN :
         LET tk == [IdleTask EXCEPT !.op = "confirm", !.name = p.name, !.art = p.art,
                                    !.overwrite = TRUE, !.prop = p,
                                    !.byAdmin = is_admin(actor, db_ok),
                                    !.preUpd = IF p.name \in DOMAIN registry
                                               THEN registry[p.name].updated_at ELSE 0]
         IN IF p.src = "lm" /\ ~has_reply
            THEN /\ tasks' = [tasks EXCEPT ![t] = Finish(tk, "fail", "CallbackError")]
                 /\ ok
                 /\ UNCHANGED <<hostAlive, boot, loaded_modules, registry, files,
                                error_log, installed, now, proposals, faults>>
            ELSE Fetch(t, tk, ok)
    /\ nOps' = nOps + 1

\* A cancel that also drops the module the proposal is about.
cancel_load_callback_Unloads(p) ==
    /\ proposals' = proposals \ {p}
    /\ loaded_modules' = [x \in DOMAIN loaded_modules \ {p.name} |-> loaded_modules[x]]
    /\ UNCHANGED <<hostAlive, boot, registry, files, error_log, installed, now, faults>>

\* cancel_load_callback: edit_text replaces the conflict message, keyboard gone.
cancel_load_callback(p) ==
    /\ proposals' = proposals \ {p}
    /\ UNCHANGED <<hostAlive, boot, loaded_modules, registry, files,
                   error_log, installed, now, faults>>

\* The "no" button of a conflict message is pressed.
Cancel(t) ==
    /\ CanStart(t)
    /\ \E p \in proposals :
         /\ cancel_load_callback(p)
         /\ tasks' = [tasks EXCEPT ![t] =
                        Finish([IdleTask EXCEPT !.op = "cancel", !.name = p.name,
                                                !.art = p.art], "ok", "none")]
    /\ nOps' = nOps + 1

\* unload_module_handler without the is_system check.
DeleteRequest_NoSystemCheck(t) ==
    /\ CanStart(t)
    /\ \E actor \in Actors, n \in Names, auth_ok \in BOOLEAN, db_ok \in BOOLEAN :
         LET tk == [IdleTask EXCEPT !.op = "ulm", !.name = n,
                                    !.byAdmin = is_admin(actor, auth_ok)]
             found == has_module(registry, n, db_ok)
             go == tk.byAdmin /\ found
         IN /\ (db_ok \/ (tk.byAdmin /\ n \in DOMAIN registry))
            /\ Fail(Cost(db_ok))
            /\ loaded_modules' = IF go THEN unload_module(loaded_modules, n)
                                 ELSE loaded_modules
            /\ tasks' = [tasks EXCEPT ![t] =
                 CASE ~tk.byAdmin -> Finish(tk, "denied", "none")
                   [] ~found -> Finish(tk, "not_found", "none")
                   [] OTHER -> [tk EXCEPT !.pc = "ulm_del",
                                          !.path = registry[n].file_path,
                                          !.calls = Append(@, "unload")]]
    /\ nOps' = nOps + 1
    /\ UNCHANGED <<hostAlive, boot, registry, files, error_log, installed, now,
                   proposals>>

\* /ulm <name>: unload_module_handler resumed with the row of
\* ModuleRecord.get_module: the refusals, else unload_module and on to
\* delete_module.
DeleteRequest(t) ==
    /\ CanStart(t)
    /\ \E actor \in Actors, n \in Names, auth_ok \in BOOLEAN, db_ok \in BOOLEAN :
         LET tk == [IdleTask EXCEPT !.op = "ulm", !.name = n,
                                    !.byAdmin = is_admin(actor, auth_ok)]
             found == has_module(registry, n, db_ok)
             go == tk.byAdmin /\ found /\ ~registry[n].is_system
         IN /\ (db_ok \/ (tk.byAdmin /\ n \in DOMAIN registry))
            /\ Fail(Cost(db_ok))
            /\ loaded_modules' = IF go THEN unload_module(loaded_modules, n)
                                 ELSE loaded_modules
            /\ tasks' = [tasks EXCEPT ![t] =
                 CASE ~tk.byAdmin -> Finish(tk, "denied", "none")
                   [] ~found -> Finish(tk, "not_found", "none")
                   [] ~go -> Finish(tk, "predefined", "none")
                   [] OTHER -> [tk EXCEPT !.pc = "ulm_del",
                                          !.path = registry[n].file_path,
                                          !.calls = Append(@, "unload")]]
    /\ nOps' = nOps + 1
    /\ UNCHANGED <<hostAlive, boot, registry, files, error_log, installed, now,
                   proposals>>

\* unload_module_handler resumed after ModuleRecord.delete_module (its result
\* is not read): the file is unlinked and "module_deleted" is answered.
UlmDel(t) ==
    LET tk == tasks[t] IN
    /\ Active /\ tk.pc = "ulm_del"
    /\ \E db_ok \in BOOLEAN :
         /\ registry' = delete_module(registry, tk.name, db_ok)
         /\ (db_ok \/ tk.name \in DOMAIN registry)
         /\ Fail(Cost(db_ok))
    /\ files' = Remove(files, tk.path)
    /\ tasks' = [tasks EXCEPT ![t] = Finish(tk, "ok", "none")]
    /\ UNCHANGED <<hostAlive, boot, loaded_modules, error_log, installed,
                   now, proposals, nOps>>

----------------------------------------------------------------------------
(* ModuleLoader.unload_module and reload_module called on the loader *)

Unload(t) ==
    /\ CanStart(t)
    /\ \E n \in Names :
         /\ loaded_modules' = unload_module(loaded_modules, n)
         /\ tasks' = [tasks EXCEPT ![t] =
                        Finish([IdleTask EXCEPT !.op = "unload", !.name = n,
                                                !.calls = <<"unload">>],
                               IF n \in DOMAIN loaded_modules THEN "ok" ELSE "false",
                               "none")]
    /\ nOps' = nOps + 1
    /\ UNCHANGED <<hostAlive, boot, registry, files, error_log, installed, now,
                   proposals, faults>>

\* reload_module that loads with the default is_system = False.
Reload_AsUser(t) ==
    /\ CanStart(t)
    /\ \E n \in Names, db_ok \in BOOLEAN :
         LET tk == [IdleTask EXCEPT !.op = "reload", !.name = n] IN
         IF has_module(registry, n, db_ok)
         THEN db_ok /\ LoadEntry(t, [tk EXCEPT !.path = registry[n].file_path,
                                      !.is_system = FALSE,
                                      !.calls = Append(@, "unload")],
                        unload_module(loaded_modules, n))
         ELSE /\ tasks' = [tasks EXCEPT ![t] = Finish(tk, "fail", "NoRecord")]
              /\ (db_ok \/ n \in DOMAIN registry)
              /\ Fail(Cost(db_ok))
              /\ UNCHANGED <<hostAlive, boot, loaded_modules, registry,
                             files, error_log, installed, now, proposals>>
    /\ nOps' = nOps + 1

\* reload_module resumed with the row of get_module: none ends it, else
\* unload_module and load_module with the row's file_path and is_system.
Reload(t) ==
    /\ CanStart(t)
    /\ \E n \in Names, db_ok \in BOOLEAN :
         LET tk == [IdleTask EXCEPT !.op = "reload", !.name = n] IN
         IF has_module(registry, n, db_ok)
         THEN db_ok /\ LoadEntry(t, [tk EXCEPT !.path = registry[n].file_path,
                                      !.is_system = registry[n].is_system,
                                      !.calls = Append(@, "unload")],
                        unload_module(loaded_modules, n))
         ELSE /\ tasks' = [tasks EXCEPT ![t] = Finish(tk, "fail", "NoRecord")]
              /\ (db_ok \/ n \in DOMAIN registry)
              /\ Fail(Cost(db_ok))
              /\ UNCHANGED <<hostAlive, boot, loaded_modules, registry,
                             files, error_log, installed, now, proposals>>
    /\ nOps' = nOps + 1

\* The handler has answered; its task ends.
Return(t) ==
    /\ hostAlive /\ tasks[t].pc = "done"
    /\ tasks' = [tasks EXCEPT ![t] = IdleTask]
    /\ UNCHANGED <<hostAlive, boot, loaded_modules, registry, files,
                   error_log, installed, now, proposals, faults, nOps>>

----------------------------------------------------------------------------

\* The artifacts found in the two directories when the process starts: for
\* each name one of the choices of SystemFiles in modules/system, one of
\* UserFiles in modules/user.
InitDir(dir, arts) ==
    {[p \in {<<dir, n>> : n \in {m \in DOMAIN arts : g[m] # "-"}} |-> g[p[2]]] :
        g \in {h \in [DOMAIN arts -> UNION {arts[n] : n \in DOMAIN arts}] :
                  \A n \in DOMAIN arts : h[n] \in arts[n]}}

InitFiles ==
    {s @@ u : s \in InitDir(system_modules_dir, SystemFiles),
              u \in InitDir(user_modules_dir, UserFiles)}

\* ModuleLoader.__init__ on a fresh database, before load_all_modules.
Init ==
    /\ hostAlive = TRUE
    /\ files \in InitFiles
    /\ boot = [dir |-> system_modules_dir, todo |-> NamesIn(system_modules_dir),
               attempted |-> <<>>]
    /\ loaded_modules = <<>>
    /\ registry = <<>>
    /\ error_log = <<>>
    /\ installed = {}
    /\ now = 0
    /\ proposals = {}
    /\ tasks = [t \in Tasks |-> IdleTask]
    /\ faults = 0
    /\ nOps = 0

\* The requests and steps of the running bot.
NextRunning ==
    \E t \in Tasks :
         \/ LoadRequest(t)
         \/ Download(t)
         \/ Exec(t)
         \/ Provision(t)
         \/ Register(t)
         \/ Upsert(t)
         \/ Confirm(t)
         \/ Cancel(t)
         \/ DeleteRequest(t)
         \/ UlmDel(t)
         \/ Unload(t)
         \/ Reload(t)
         \/ Return(t)

Next == BootNext \/ NextRunning

Spec == Init /\ [][Next]_vars

(* The bot after a startup without failures, a.py in modules/system and b.py
   in modules/user both loaded and recorded, and after one load request that
   met a conflict: its message is pending.  Runs from here spend their
   requests on the pending proposal. *)
PendingArts == {"D", "E"}

InitPending ==
    /\ hostAlive = TRUE
    /\ files = (<<system_modules_dir, "a">> :> "A") @@ (<<user_modules_dir, "b">> :> "A")
    /\ boot = [dir |-> "done", todo |-> {},
               attempted |-> << <<system_modules_dir, "a">>, <<user_modules_dir, "b">> >>]
    /\ loaded_modules = ("a" :> ModuleInfo("A", TRUE)) @@ ("b" :> ModuleInfo("A", FALSE))
    /\ registry = add_module(add_module(<<>>, "a", <<system_modules_dir, "a">>, TRUE, 1),
                             "b", <<user_modules_dir, "b">>, FALSE, 2)
    /\ error_log = <<>>
    /\ installed = {}
    /\ now = 2
    /\ \E src \in {"lm", "dlm"}, n \in Names, art \in PendingArts :
         proposals = {Proposal(src, n, art)}
    /\ tasks = [t \in Tasks |-> IdleTask]
    /\ faults = 0
    /\ nOps = 0

SpecPending == InitPending /\ [][NextRunning]_vars

(* Startup alone, over directories with more in them: a name may have a file
   in both directories (modules/user/a.py is left there by an overwrite of
   system module a), and the files may fail in each of the ways an artifact
   can. No request is handled before load_all_modules has returned. *)
BootSystemFiles == [a |-> {"A", "X", "Q"}, b |-> {"A", "-"}]
BootUserFiles == [a |-> {"A", "-"}, b |-> {"D", "R", "M", "-"}]

InitBoot ==
    /\ hostAlive = TRUE
    /\ files \in {s @@ u : s \in InitDir(system_modules_dir, BootSystemFiles),
                          u \in InitDir(user_modules_dir, BootUserFiles)}
    /\ boot = [dir |-> system_modules_dir, todo |-> NamesIn(system_modules_dir),
               attempted |-> <<>>]
    /\ loaded_modules = <<>>
    /\ registry = <<>>
    /\ error_log = <<>>
    /\ installed = {}
    /\ now = 0
    /\ proposals = {}
    /\ tasks = [t \in Tasks |-> IdleTask]
    /\ faults = 0
    /\ nOps = 0

\* on_startup: load_all_modules and the steps of the load_module it awaits.
NextBoot ==
    \/ BootNext
    \/ Exec(1)
    \/ Provision(1)
    \/ Register(1)
    \/ Upsert(1)
    \/ Return(1)

SpecBoot == InitBoot /\ [][NextBoot]_vars

----------------
(* Properties *)

Done(t) == tasks[t].pc = "done"

\* The call reached load_module.
RanLoad(t) == \E i \in 1..Len(tasks[t].calls) : tasks[t].calls[i] = "load"

\* The step in which task t takes up a request of kind op.
Takes(t, op) == tasks[t].pc = "idle" /\ tasks'[t].op = op

\* C1: whenever the last operation has completed successfully, a name is in
\* the Catalog if and only if the Registry holds an active record for it.
C1_CatalogIffActiveRecord ==
    \A t \in Tasks :
        (Done(t) /\ tasks[t].ret = "ok") =>
            \A n \in Names :
                (n \in DOMAIN loaded_modules)
                    <=> (n \in DOMAIN registry /\ registry[n].is_active)

\* A task is between the first effect of a mutating operation and its return.
InProgress(t) ==
    tasks[t].pc \in {"download", "exec", "provision", "register", "upsert", "ulm_del"}

\* C2: at most one mutating operation is in progress on a name at any instant.
C2_OneOperationPerName ==
    \A t1, t2 \in Tasks :
        (t1 # t2 /\ InProgress(t1) /\ InProgress(t2)) => tasks[t1].name # tasks[t2].name

\* C3: a Load that fails at any step, the Registry Upsert included, has
\* changed neither the Catalog nor the Registry.
C3_FailedLoadChangesNothing ==
    \A t \in Tasks :
        (Done(t) /\ RanLoad(t) /\ tasks[t].ret = "fail") => ~tasks[t].mut

\* C4: a Load that ends with InvalidModuleSchema (no register entrypoint, or
\* a returned value that is no ModuleInfo) fails and has changed neither the
\* Catalog nor the Registry.
C4_InvalidSchemaChangesNothing ==
    \A t \in Tasks :
        (Done(t) /\ tasks[t].kind = "InvalidModuleSchema") =>
            (tasks[t].ret = "fail" /\ ~tasks[t].mut)

\* C4 witness: a Load has ended with InvalidModuleSchema because register
\* returned a value that is no ModuleInfo.
C4_Witness ==
    \E t \in Tasks :
        /\ Done(t) /\ tasks[t].kind = "InvalidModuleSchema"
        /\ Artifact[tasks[t].art].register = "bad"

\* C5: a Load that ends with ArtifactNotFound, ProvisionError or
\* ExecutionFault fails and has changed neither the Catalog nor the Registry,
\* whether or not the name was loaded.
C5_LocalFailureChangesNothing ==
    \A t \in Tasks :
        (Done(t) /\ tasks[t].kind \in {"ArtifactNotFound", "ProvisionError", "ExecutionFault"}) =>
            (tasks[t].ret = "fail" /\ ~tasks[t].mut)

\* C5 witness: a Load of a name that is in the Catalog has ended with
\* ExecutionFault raised by the entrypoint.
C5_Witness ==
    \E t \in Tasks :
        /\ Done(t) /\ tasks[t].kind = "ExecutionFault"
        /\ Artifact[tasks[t].art].register = "raise"
        /\ tasks[t].name \in DOMAIN loaded_modules

\* C6: every Load failure of kind ArtifactNotFound, InvalidModuleSchema,
\* ProvisionError or ExecutionFault is reported to the caller and has
\* appended a record to the Error Sink.
C6_FailureReportedAndLogged ==
    \A t \in Tasks :
        (Done(t) /\ tasks[t].kind \in {"ArtifactNotFound", "InvalidModuleSchema",
                                       "ProvisionError", "ExecutionFault"}) =>
            (tasks[t].ret = "fail" /\ tasks[t].logged)

\* C7: no fault raised by an artifact's code during Load leaves load_module:
\* the Load returns and the host keeps running.
C7_HostKeepsRunning == hostAlive /\ \A t \in Tasks : tasks[t].pc # "crashed"

\* C8: an authorized load request for a name that is in the Catalog only
\* adds a pending proposal and ends: it changes neither the Catalog, the
\* Registry nor the stored artifacts.
C8_ConflictOnlyProposes ==
    [][\A t \in Tasks :
          (Takes(t, "load") /\ tasks'[t].byAdmin /\ tasks'[t].name \in DOMAIN loaded_modules) =>
              /\ tasks'[t].pc = "done" /\ tasks'[t].ret = "conflict"
              /\ \E src \in {"lm", "dlm"} :
                    proposals' = proposals \cup {Proposal(src, tasks'[t].name, tasks'[t].art)}
              /\ UNCHANGED <<loaded_modules, registry, files>>]_vars

\* C8 witness: a load request has ended in a conflict; its proposal is
\* pending and the name is still served by the artifact loaded earlier.
C8_Witness ==
    \E t \in Tasks :
        /\ Done(t) /\ tasks[t].ret = "conflict"
        /\ \E p \in proposals : p.name = tasks[t].name /\ p.art = tasks[t].art
        /\ tasks[t].name \in DOMAIN loaded_modules
        /\ loaded_modules[tasks[t].name].art # tasks[t].art

\* C9: Cancel of a pending proposal discards it and changes neither the
\* Catalog, the Registry nor the stored artifacts.
C9_CancelChangesNothing ==
    [][\A t \in Tasks :
          Takes(t, "cancel") =>
              /\ proposals' \subseteq proposals /\ proposals' # proposals
              /\ UNCHANGED <<loaded_modules, registry, files>>]_vars

\* C9 witness: a Cancel has ended while the name of its proposal is loaded.
C9_Witness ==
    \E t \in Tasks :
        /\ Done(t) /\ tasks[t].op = "cancel"
        /\ tasks[t].name \in DOMAIN loaded_modules

\* On success the record's updated_at is later than it was when the Confirm
\* began (preUpd; 0 when there was no record).
UpdatedLater(t) ==
    tasks[t].ret = "ok" =>
        /\ tasks[t].name \in DOMAIN registry
        /\ registry[tasks[t].name].updated_at > tasks[t].preUpd

\* C10 as stated: every Confirm performs exactly one Unload and then exactly
\* one Load, and on success updated_at is strictly later than before.
C10_ConfirmUnloadsThenLoads ==
    \A t \in Tasks :
        (Done(t) /\ tasks[t].op = "confirm") =>
            (tasks[t].calls = <<"unload", "load">> /\ UpdatedLater(t))

\* C10 amended: a Confirm that has fetched the artifact performs exactly one
\* Unload and then exactly one Load; one that has not (the callback raised,
\* the download failed) performs neither; on success updated_at is strictly
\* later than before.
C10_ConfirmUnloadsThenLoadsOnceFetched ==
    \A t \in Tasks :
        (Done(t) /\ tasks[t].op = "confirm") =>
            /\ tasks[t].fetched => tasks[t].calls = <<"unload", "load">>
            /\ ~tasks[t].fetched => tasks[t].calls = <<>>
            /\ UpdatedLater(t)

\* C10 witness: a Confirm has succeeded on a name that had a record.
C10_Witness ==
    \E t \in Tasks :
        /\ Done(t) /\ tasks[t].op = "confirm" /\ tasks[t].ret = "ok"
        /\ tasks[t].preUpd > 0

\* C11: once a proposal has been resolved (a Confirm of it has ended, or it
\* has been cancelled: its message is gone), a Confirm of that proposal
\* performs no Unload and no Load and changes neither the Catalog, the
\* Registry nor the stored artifacts.
C11_ResolvedProposalIsSpent ==
    [][\A t \in Tasks :
          (/\ tasks[t].op = "confirm" /\ tasks[t].pc \in {"exec", "register", "upsert"}
           /\ tasks[t].prop \notin proposals
           /\ tasks'[t] # tasks[t]) =>
              (/\ tasks'[t].calls = tasks[t].calls
               /\ UNCHANGED <<loaded_modules, registry, files>>)]_vars

\* C12: when a Confirm has succeeded, the Catalog entry of the name is the
\* descriptor of the proposed artifact and the Registry record's file_path
\* identifies that artifact.
C12_ConfirmedArtifactIsServed ==
    \A t \in Tasks :
        (Done(t) /\ tasks[t].op = "confirm" /\ tasks[t].ret = "ok") =>
            LET n == tasks[t].name
                b == tasks[t].prop.art
            IN /\ n \in DOMAIN loaded_modules
               /\ loaded_modules[n].art = b
               /\ n \in DOMAIN registry
               /\ registry[n].file_path \in DOMAIN files
               /\ files[registry[n].file_path] = b

\* C13: a step of a load request, of an overwrite Confirm or of a Delete
\* changes the Catalog, the Registry or the stored artifacts only if the
\* requesting actor passed the authorization check.
C13_OnlyAuthorizedActorsMutate ==
    [][\A t \in Tasks :
          (/\ tasks'[t] # tasks[t]
           /\ tasks'[t].op \in {"load", "confirm", "ulm"}
           /\ ~tasks'[t].byAdmin) =>
              UNCHANGED <<loaded_modules, registry, files>>]_vars

\* C14: a Delete of a name whose Registry record is a system record ends
\* without success and changes neither the Catalog, the Registry nor the
\* stored artifacts, whoever the actor is.
C14_DeleteRefusesSystemRecord ==
    [][\A t \in Tasks :
          (/\ Takes(t, "ulm")
           /\ tasks'[t].name \in DOMAIN registry
           /\ registry[tasks'[t].name].is_system) =>
              (/\ tasks'[t].pc = "done"
               /\ tasks'[t].ret \in {"denied", "not_found", "predefined"}
               /\ tasks'[t].calls = <<>>
               /\ UNCHANGED <<loaded_modules, registry, files>>)]_vars

\* C14 witness: an admin's Delete of a loaded system module was refused as
\* predefined.
C14_Witness ==
    \E t \in Tasks :
        /\ Done(t) /\ tasks[t].op = "ulm" /\ tasks[t].ret = "predefined"
        /\ tasks[t].byAdmin
        /\ tasks[t].name \in DOMAIN loaded_modules
        /\ registry[tasks[t].name].is_system

\* C15: a Registry record that is a system record is never removed, and it
\* stays a system record, whatever step is taken (overwrite Confirm and
\* Reload of its name included).
C15_SystemRecordStays ==
    [][\A n \in Names :
          (n \in DOMAIN registry /\ registry[n].is_system) =>
              (n \in DOMAIN registry' /\ registry'[n].is_system)]_vars

\* C15 witness: an overwrite Confirm has rewritten the record of a system
\* module, which points at the uploaded file now.
C15_Witness ==
    \E t \in Tasks :
        /\ Done(t) /\ tasks[t].op = "confirm" /\ tasks[t].ret = "ok"
        /\ tasks[t].name \in DOMAIN registry
        /\ registry[tasks[t].name].is_system
        /\ registry[tasks[t].name].file_path = <<user_modules_dir, tasks[t].name>>

\* C16: a Delete of a name without a Registry record reports not-found and
\* changes nothing; a Delete that went on to remove a user record ends with
\* success, the record gone from the Registry and the artifact gone from
\* storage.
C16_DeleteRemovesRecordAndArtifact ==
    [][\A t \in Tasks :
          /\ (/\ Takes(t, "ulm") /\ tasks'[t].byAdmin
              /\ tasks'[t].name \notin DOMAIN registry) =>
                 (/\ tasks'[t].pc = "done" /\ tasks'[t].ret = "not_found"
                  /\ UNCHANGED <<loaded_modules, registry, files>>)
          /\ (tasks[t].pc = "ulm_del" /\ tasks'[t].pc = "done") =>
                 (/\ tasks'[t].ret = "ok"
                  /\ tasks[t].name \notin DOMAIN registry'
                  /\ tasks[t].path \notin DOMAIN files')]_vars

\* C17: Unload returns without an error and leaves the name out of the
\* Catalog, so that an Unload right after it finds no entry; an Unload of a
\* name without a Catalog entry returns false and leaves the Catalog as it is.
C17_UnloadIdempotent ==
    [][\A t \in Tasks :
          Takes(t, "unload") =>
              LET n == tasks'[t].name
              IN /\ tasks'[t].pc = "done"
                 /\ n \notin DOMAIN loaded_modules'
                 /\ (n \in DOMAIN loaded_modules) => tasks'[t].ret = "ok"
                 /\ (n \notin DOMAIN loaded_modules) =>
                        (tasks'[t].ret = "false" /\ loaded_modules' = loaded_modules)]_vars

\* C17 witness: in a run without failures an Unload has returned false for a
\* recorded module: the request before it was the Unload that removed it.
C17_Witness ==
    \E t \in Tasks :
        /\ Done(t) /\ tasks[t].op = "unload" /\ tasks[t].ret = "false"
        /\ tasks[t].name \in DOMAIN registry
        /\ faults = 0 /\ nOps = 2 /\ proposals = {}

\* C18: Unload leaves the Registry, the stored artifacts and the Catalog
\* entries of all other names as they are.
C18_UnloadTouchesOnlyItsEntry ==
    [][\A t \in Tasks :
          Takes(t, "unload") =>
              /\ UNCHANGED <<registry, files>>
              /\ \A m \in Names \ {tasks'[t].name} :
                    /\ (m \in DOMAIN loaded_modules) <=> (m \in DOMAIN loaded_modules')
                    /\ (m \in DOMAIN loaded_modules) => loaded_modules'[m] = loaded_modules[m]]_vars

\* C18 witness: an Unload has removed a recorded module while another module
\* is loaded.
C18_Witness ==
    \E t \in Tasks :
        /\ Done(t) /\ tasks[t].op = "unload" /\ tasks[t].ret = "ok"
        /\ tasks[t].name \in DOMAIN registry
        /\ registry[tasks[t].name].is_active
        /\ \E m \in Names \ {tasks[t].name} : m \in DOMAIN loaded_modules

\* C19: when the Load inside a Reload has failed, the name is absent from
\* the Catalog once the Reload has returned.
C19_FailedReloadLeavesUnloaded ==
    \A t \in Tasks :
        (Done(t) /\ tasks[t].op = "reload" /\ RanLoad(t) /\ tasks[t].ret = "fail") =>
            tasks[t].name \notin DOMAIN loaded_modules

\* The Reload step of task t called Unload and entered Load with the
\* file_path and is_system of the record of n.
ReloadedFromRecord(t, n) ==
    /\ tasks'[t].calls = <<"unload", "load">>
    /\ tasks'[t].path = registry[n].file_path
    /\ tasks'[t].is_system = registry[n].is_system
    /\ n \notin DOMAIN loaded_modules'

\* The Reload step of task t returned false and did nothing else.
ReloadRefused(t) ==
    /\ tasks'[t].pc = "done" /\ tasks'[t].ret = "fail" /\ tasks'[t].kind = "NoRecord"
    /\ tasks'[t].calls = <<>>
    /\ UNCHANGED <<loaded_modules, registry, files>>

C22_OneOriginPerName ==
    \A n \in DOMAIN loaded_modules \cap DOMAIN registry :
        loaded_modules[n].is_system = registry[n].is_system

\* The next step of the operation task u is carrying out.
Continue(u) ==
    Download(u) \/ Exec(u) \/ Provision(u) \/ Register(u) \/ Upsert(u) \/ UlmDel(u)

(* C23: provisioning for one name does not block operations on other names.
   Whenever a Load is inside its dependency-provisioning step and an
   operation on another name is in progress, that operation can take its
   next step. *)
C23_ProvisioningDoesNotBlock ==
    \A t, u \in Tasks :
        (/\ tasks[t].pc = "provision"
         /\ InProgress(u) /\ tasks[u].name # tasks[t].name)
        => ENABLED Continue(u)

(* C24: a module whose descriptor declares dependencies is provisioned before
   it becomes active. Whenever a Load has inserted a descriptor with a
   non-empty dependencies list into the Catalog, pip was run on exactly that
   list earlier in the same Load and every specifier of it is installed. *)
C24_ProvisionedBeforeActive ==
    \A t \in Tasks :
        LET deps == Artifact[tasks[t].art].dependencies IN
        (tasks[t].pc = "upsert" /\ deps # <<>>)
        => /\ tasks[t].tried = deps
           /\ \A i \in 1..Len(deps) : deps[i] \in installed

(* C25: a Load that ends with InvalidModuleSchema (no register function, or
   register returned something that is no ModuleInfo) has taken no further
   step: pip was not run on any specifier in that Load. *)
C25_InvalidSchemaProvisionsNothing ==
    \A t \in Tasks :
        (Done(t) /\ RanLoad(t) /\ tasks[t].kind = "InvalidModuleSchema")
        => tasks[t].tried = <<>>

\* s is an initial segment of the sequence deps.
IsPrefix(s, deps) == Len(s) <= Len(deps) /\ \A i \in 1..Len(s) : s[i] = deps[i]

(* C26: Install(deps) runs pip on the specifiers in list order and stops at
   the first failing one. In the step that carries out a provisioning, the
   specifiers pip was run on are an initial segment of the list; nothing
   installed before is lost; on success pip was run on the whole list and
   all of it is installed; on failure exactly the specifiers before the last
   one tried were added, and the Load ends with ProvisionError. *)
C26_InstallInOrderUntilFailure ==
    [][\A t \in Tasks :
         (tasks[t].pc = "provision" /\ tasks'[t].pc # "provision")
         => LET deps == DepsAt(tasks[t].path)
                tr == tasks'[t].tried
            IN /\ IsPrefix(tr, deps)
               /\ installed \subseteq installed'
               /\ tasks'[t].pc \in {"register", "done"}
               /\ tasks'[t].pc = "register"
                    => /\ tr = deps
                       /\ installed' = installed \cup {deps[i] : i \in 1..Len(deps)}
               /\ tasks'[t].pc = "done"
                    => /\ tasks'[t].kind = "ProvisionError"
                       /\ Len(tr) >= 1
                       /\ installed' = installed \cup {tr[i] : i \in 1..(Len(tr) - 1)}]_vars

\* pip installed the first specifier and failed on the second: the Load is over.
C26_Witness ==
    \E t \in Tasks :
        /\ Done(t) /\ tasks[t].kind = "ProvisionError"
        /\ tasks[t].tried = <<"p1", "p2">>
        /\ "p1" \in installed /\ "p2" \notin installed

(* C27: a load request never replaces a live Catalog entry; only a Confirm
   does. In every step taken by a load request (or by the startup loading),
   each name that has a Catalog entry keeps that entry unchanged. *)
C27_LoadRequestKeepsLiveEntry ==
    [][\A t \in Tasks :
         (tasks'[t] # tasks[t] /\ tasks[t].op \in {"load", "boot"})
         => \A n \in DOMAIN loaded_modules :
                /\ n \in DOMAIN loaded_modules'
                /\ loaded_modules'[n] = loaded_modules[n]]_vars

(* C28: Registry Upsert. In the step in which add_module succeeds for name n:
   if n had no record, n has a new active record with the given file_path
   and is_system; if n had a record, its file_path is the given one,
   is_active is true, updated_at is later than before and added_at is kept;
   in both cases the records of all other names are untouched. *)
C28_UpsertCreatesOrUpdates ==
    [][\A t \in Tasks :
         (tasks[t].pc = "upsert" /\ tasks'[t].pc = "done" /\ tasks'[t].ret = "ok")
         => LET n == tasks[t].name IN
            /\ DOMAIN registry' = DOMAIN registry \cup {n}
            /\ \A m \in DOMAIN registry \ {n} : registry'[m] = registry[m]
            /\ registry'[n].file_path = tasks[t].path
            /\ registry'[n].is_active
            /\ n \notin DOMAIN registry
                 => /\ registry'[n].is_system = tasks[t].is_system
                    /\ registry'[n].added_at = registry'[n].updated_at
            /\ n \in DOMAIN registry
                 => /\ registry'[n].updated_at > registry[n].updated_at
                    /\ registry'[n].added_at = registry[n].added_at]_vars

\* An Upsert on an existing record has ended: new file_path, later updated_at.
C28_Witness ==
    \E t \in Tasks :
        /\ Done(t) /\ tasks[t].ret = "ok" /\ tasks[t].op = "confirm"
        /\ tasks[t].name \in DOMAIN registry
        /\ registry[tasks[t].name].file_path = tasks[t].path
        /\ registry[tasks[t].name].file_path[1] = user_modules_dir
        /\ registry[tasks[t].name].is_system
        /\ registry[tasks[t].name].updated_at > registry[tasks[t].name].added_at

(* C29: the result of a successful Load. When load_module has returned True
   for (file_path, name, is_system), the Catalog entry of name is the
   descriptor register returned, tagged with that is_system, and the
   Registry record of name is active with that file_path. *)
C29_SuccessfulLoadIsInstalled ==
    \A t \in Tasks :
        (Done(t) /\ RanLoad(t) /\ tasks[t].ret = "ok")
        => LET n == tasks[t].name IN
           /\ n \in DOMAIN loaded_modules
           /\ loaded_modules[n] = ModuleInfo(tasks[t].art, tasks[t].is_system)
           /\ n \in DOMAIN registry
           /\ registry[n].file_path = tasks[t].path
           /\ registry[n].is_active

\* The step of task t in which the artifact's code raised, at its top level
\* or inside register: an Exception ends the Load, anything else the host.
Raises(t) ==
    /\ tasks[t].pc \notin {"done", "crashed"}
    /\ \/ tasks'[t].pc = "crashed"
       \/ tasks'[t].pc = "done" /\ tasks'[t].kind = "ExecutionFault"

(* C30: every fault raised by the artifact's code during Load appends exactly
   one record with the module's name to the Error Sink, and no step of any
   operation changes or removes a record that is already there. *)
C30_FaultAppendsOneRecord ==
    [][/\ IsPrefix(error_log, error_log')
       /\ \A t \in Tasks :
            Raises(t) => /\ Len(error_log') = Len(error_log) + 1
                         /\ error_log'[Len(error_log')].module_name = tasks'[t].name]_vars

\* The paths of the artifacts in the two directories that load_all_modules
\* has not yet called load_module on.
Unattempted ==
    {p \in DOMAIN files : \A i \in 1..Len(boot.attempted) : boot.attempted[i] # p}

\* The artifact loads when nothing outside it fails.
LoadsAlone(art) ==
    /\ Artifact[art].exec = "ok" /\ Artifact[art].hasRegister
    /\ Artifact[art].register = "info"

(* C31: startup loading. load_module is called on every artifact of the
   system directory before any artifact of the user directory; as long as an
   artifact is left to attempt, the startup can take its next step, whatever
   the Loads before did; and when startup is over every artifact has been
   attempted and the Catalog has an entry for every artifact that loads when
   nothing outside it fails (provided nothing outside did fail). *)
C31_StartupAttemptsEveryArtifact ==
    /\ \A i, j \in 1..Len(boot.attempted) :
         (i < j /\ boot.attempted[i][1] = user_modules_dir)
         => boot.attempted[j][1] = user_modules_dir
    /\ \A j \in 1..Len(boot.attempted) :
         boot.attempted[j][1] = user_modules_dir
         => \A p \in DOMAIN files :
               p[1] = system_modules_dir => \E i \in 1..(j - 1) : boot.attempted[i] = p
    /\ (boot.dir # "done" /\ Unattempted # {}) => ENABLED NextBoot
    /\ boot.dir = "done" =>
         /\ Unattempted = {}
         /\ faults = 0 =>
              \A p \in DOMAIN files : LoadsAlone(files[p]) => p[2] \in DOMAIN loaded_modules

(* C32: Delete removes the artifact only together with the Registry record.
   In the step in which unload_module_handler ends after delete_module, if
   the record of the name is still in the Registry, then no artifact has
   been removed from storage and success is not reported. *)
C32_DeleteKeepsArtifactWithRecord ==
    [][\A t \in Tasks :
         (/\ tasks[t].pc = "ulm_del" /\ tasks'[t].pc = "done"
          /\ tasks[t].name \in DOMAIN registry')
         => (files' = files /\ tasks'[t].ret # "ok")]_vars

(* C33: is_active is never set to false. In every reachable state every
   Registry record is active, so get_all_modules, which filters on
   is_active, lists every record, and per origin class every record of that
   class; records of modules that are unloaded are among them. *)
C33_EveryRecordIsActive ==
    /\ \A n \in DOMAIN registry : registry[n].is_active
    /\ get_all_modules(registry, "None", TRUE) = DOMAIN registry
    /\ get_all_modules(registry, "True", TRUE) = {n \in DOMAIN registry : registry[n].is_system}
    /\ get_all_modules(registry, "False", TRUE) = {n \in DOMAIN registry : ~registry[n].is_system}

\* A Reload has failed and left the module unloaded; its record is still
\* listed as active.
C33_Witness ==
    \E t \in Tasks :
        /\ Done(t) /\ tasks[t].op = "reload" /\ tasks[t].ret = "fail"
        /\ tasks[t].calls = <<"unload", "load">>
        /\ tasks[t].name \notin DOMAIN loaded_modules
        /\ tasks[t].name \in get_all_modules(registry, "None", TRUE)

====
